---- MODULE Spec2Model ----
(***************************************************************************)
(* NewsCast AI: the App component (script generation and speech synthesis  *)
(* requests, App.tsx), the NewsInput component (text, example and file     *)
(* upload, components/NewsInput.tsx, kept in src/services/gemini.ts) and   *)
(* the AudioPlayer component (the playback timeline controller: playAudio  *)
(* / pauseAudio / resetAudio / stopAudio / updateProgress over one         *)
(* AudioContext, components/AudioPlayer.tsx, kept in src/unnamed/part_001).*)
(*                                                                         *)
(* Time is the AudioContext's currentTime in whole units; it advances only *)
(* while the context is running.  A handler runs to completion as one      *)
(* step; an `await` splits an async function into one step per segment,    *)
(* and each segment reads the props and state captured by the render in    *)
(* which the function was created (its closure).  A render and its effects *)
(* are part of the step that changed the state.                            *)
(***************************************************************************)
EXTENDS Integers, Sequences, FiniteSets, TLC

\* ---------------------------------------------------------------- bounds
MaxTime == 4
MaxPending == 2
MaxSamples == 2
MaxCalls == 2
MaxOffset == 6100

\* the sample durations the synthesis service may deliver
Durations == {2, 3}
\* two of the five VoiceName values
Voices == {"Kore", "Puck"}

\* formatTime's argument is a number of seconds with a fraction; offsets
\* handed to it are counted in fixed-point units, this many to the second
Units == 10

\* ------------------------------------------------------ program constants
Percent == 100
NoNode == 0
NoBuffer == [id |-> 0, duration |-> 0]
NoError == "null"
ErrAudio == "Failed to generate audio. "
ErrBroadcast == "Failed to generate broadcast. Please try again. "
ErrExample == "Failed to generate example content. "
ErrExtract == "Failed to extract text from file. "

VARIABLES
    \* App state (App.tsx 9-18)
    inputText, generatedScript, audioBuffer, isProcessing, isSynthesizing,
    selectedVoice, error, precisionMode,
    \* NewsInput state (services/gemini.ts 146-149)
    showExampleInput, exampleTopic, isGeneratingExample, isUploading,
    \* the async invocations of App and NewsInput that are suspended at an
    \* await or wait for a FileReader's load event, oldest first: the
    \* function, the await it is at, and for handleGenerate, the only one that
    \* reads it, the precisionMode of its closure
    calls,
    \* how many AudioBuffers generateSpeechFromScript has decoded so far
    decoded,
    \* AudioPlayer state (part_001 26-28) and refs (part_001 31-35)
    isPlaying, progress, isEditing,
    sourceNodeRef, startTimeRef, pauseTimeRef, animationFrameRef,
    \* the AudioContext: its state and its clock
    ctxState, currentTime,
    \* the AudioBufferSourceNodes on which start() was called and stop() was not
    nodes,
    \* the animation-frame callbacks requested and neither run nor cancelled,
    \* oldest first: each is updateProgress with the audioBuffer of its closure
    rafQueue,
    \* the playAudio invocations suspended at `await resume()`, oldest first
    playCalls,
    \* history: whether play and pause have alternated since the last reset,
    \* replacement or completion, and if so the clock time spent playing since
    activeTime, alternating,
    \* history: the last operation that called stopAudio since playback last
    \* began, and whether the session was playing when it did
    lastStop,
    \* history: whether playAudio was called with no sample since the
    \* audioBuffer prop last changed
    playedNoSample,
    \* formatTime at work on its own: its argument, in fixed-point units, and
    \* the string it returned, a sequence of characters, empty before the call
    formatArg, formatted,
    \* history: whether the last handleGenerate that got past its guard ran
    \* with precision mode on and handleConfirmScript has not requested a
    \* synthesis since
    gated

inputVars == <<showExampleInput, exampleTopic, isGeneratingExample,
               isUploading>>
appVars == <<inputText, generatedScript, audioBuffer, isProcessing,
             isSynthesizing, selectedVoice, error, precisionMode, calls,
             decoded, inputVars, gated>>
playerVars == <<isPlaying, progress, isEditing, sourceNodeRef, startTimeRef,
                pauseTimeRef, animationFrameRef, nodes, rafQueue>>
ctxVars == <<ctxState, currentTime, playCalls>>
histVars == <<activeTime, alternating, lastStop, playedNoSample>>
fmtVars == <<formatArg, formatted>>
vars == <<appVars, playerVars, ctxVars, histVars, fmtVars>>

\* ------------------------------------------------------------ the player

\* the AudioPlayer's state and refs as one value
Cur ==
    [isPlaying |-> isPlaying, progress |-> progress, isEditing |-> isEditing,
     sourceNodeRef |-> sourceNodeRef, startTimeRef |-> startTimeRef,
     pauseTimeRef |-> pauseTimeRef, animationFrameRef |-> animationFrameRef,
     nodes |-> nodes, rafQueue |-> rafQueue]

Apply(s) ==
    /\ isPlaying' = s.isPlaying
    /\ progress' = s.progress
    /\ isEditing' = s.isEditing
    /\ sourceNodeRef' = s.sourceNodeRef
    /\ startTimeRef' = s.startTimeRef
    /\ pauseTimeRef' = s.pauseTimeRef
    /\ animationFrameRef' = s.animationFrameRef
    /\ nodes' = s.nodes
    /\ rafQueue' = s.rafQueue

NoStop == [op |-> "none", wasPlaying |-> FALSE]

\* the state of a freshly mounted AudioPlayer
PlayerInitial ==
    [isPlaying |-> FALSE, progress |-> 0, isEditing |-> FALSE,
     sourceNodeRef |-> NoNode, startTimeRef |-> 0, pauseTimeRef |-> 0,
     animationFrameRef |-> "none", nodes |-> {}, rafQueue |-> <<>>]

\* App renders the AudioPlayer only then
Mounted == generatedScript # "" \/ isProcessing

\* the least positive number that is in no element of `used`
LeastFree(used) ==
    CHOOSE k \in 1..(Cardinality(used) + 1) :
        /\ k \notin used
        /\ \A j \in 1..(k - 1) : j \in used

\* a new AudioBufferSourceNode: an object distinct from every live node and
\* from the one the ref holds
FreshNode(s) == LeastFree({n.id : n \in s.nodes} \cup {s.sourceNodeRef})

\* (elapsedTime / duration) * 100
CurrentProgress(elapsed, duration) == (elapsed * Percent) \div duration

ReferenceClockStartNoOffset(t, offset) == t

\* startTimeRef.current = currentTime - offset
ReferenceClockStart(t, offset) == t - offset

\* sourceNodeRef.current.stop(): the node is no longer started-and-not-stopped
StopNode(ns, ref) == {n \in ns : n.id # ref}

\* sourceNodeRef.current.stop() meets a node that stop() was already called
\* on or that has played to the end of its buffer: implementations that
\* reject this throw InvalidStateError, the others do nothing
StopMayThrow(s, t) ==
    /\ s.sourceNodeRef # NoNode
    /\ \A n \in s.nodes : n.id = s.sourceNodeRef
                             => t - s.startTimeRef >= n.buffer.duration

StopAudioRaisesNoCatch(s, t) == StopMayThrow(s, t)

\* try { ... } catch (e) { }: what escapes when the body raises or does not
Uncaught(raised) == FALSE

\* stopAudio lets an error escape: its stop() and disconnect() are inside
\* try / catch "Ignore errors if already stopped"
StopAudioRaises(s, t) == Uncaught(StopMayThrow(s, t))

\* playAudio lets an error escape at "Stop any existing playback": its
\* stop() is not inside a try
PlayAudioRaises(s, t) == StopMayThrow(s, t)

\* animationFrameRef.current holds 0 ("none") or the handle of the latest
\* requestAnimationFrame.  A handle is an opaque number, kept here as what the
\* browser makes of it: "pending" while its callback, the newest of rafQueue,
\* waits, and "done" once that callback has run or was cancelled.

\* animationFrameRef.current = requestAnimationFrame(updateProgress)
RequestFrame(s, buf) ==
    [s EXCEPT !.rafQueue = Append(@, buf), !.animationFrameRef = "pending"]

\* cancelAnimationFrame(animationFrameRef.current): no callback but the
\* latest requested can be cancelled, and a handle that is done cancels nothing
CancelFrame(s) ==
    IF s.animationFrameRef = "pending"
    THEN [s EXCEPT !.rafQueue = SubSeq(@, 1, Len(@) - 1),
                   !.animationFrameRef = "done"]
    ELSE s

StopAudioKeepsFlag(s) ==
    [CancelFrame(s) EXCEPT !.nodes = StopNode(@, s.sourceNodeRef),
                           !.sourceNodeRef = NoNode]

StopAudio(s) ==
    [CancelFrame(s) EXCEPT !.nodes = StopNode(@, s.sourceNodeRef),
                           !.sourceNodeRef = NoNode,
                           !.isPlaying = FALSE]

UpdateProgressNoStop(s, buf, t) ==
    IF s.sourceNodeRef = NoNode \/ buf = NoBuffer THEN s
    ELSE IF CurrentProgress(t - s.startTimeRef, buf.duration) >= Percent
    THEN [s EXCEPT !.progress = Percent, !.pauseTimeRef = 0]
    ELSE RequestFrame([s EXCEPT !.progress =
                          CurrentProgress(t - s.startTimeRef, buf.duration)], buf)

UpdateProgressNoEngineCheck(s, buf, t) ==
    IF buf = NoBuffer THEN s
    ELSE IF CurrentProgress(t - s.startTimeRef, buf.duration) >= Percent
    THEN [StopAudio([s EXCEPT !.progress = Percent]) EXCEPT !.pauseTimeRef = 0]
    ELSE RequestFrame([s EXCEPT !.progress =
                          CurrentProgress(t - s.startTimeRef, buf.duration)], buf)

\* updateProgress as created in the render whose audioBuffer prop was buf
UpdateProgress(s, buf, t) ==
    IF s.sourceNodeRef = NoNode \/ buf = NoBuffer THEN s
    ELSE LET elapsedTime == t - s.startTimeRef
             currentProgress == CurrentProgress(elapsedTime, buf.duration)
         IN  IF currentProgress >= Percent
             THEN [StopAudio([s EXCEPT !.progress = Percent])
                      EXCEPT !.pauseTimeRef = 0]
             ELSE RequestFrame([s EXCEPT !.progress = currentProgress], buf)

StartPlaybackNoStop(s, buf, t) ==
    LET source == FreshNode(s)
        started == [s EXCEPT
            !.nodes = @ \cup {[id |-> source, buffer |-> buf,
                                offset |-> s.pauseTimeRef]},
            !.startTimeRef = ReferenceClockStart(t, s.pauseTimeRef),
            !.sourceNodeRef = source,
            !.isPlaying = TRUE]
    IN  UpdateProgress(started, buf, t)

\* playAudio from "Stop any existing playback" on, in the closure of buf
StartPlayback(s, buf, t) ==
    LET source == FreshNode(s)
        offset == s.pauseTimeRef
        started == [s EXCEPT
            !.nodes = StopNode(@, s.sourceNodeRef)
                        \cup {[id |-> source, buffer |-> buf, offset |-> offset]},
            !.startTimeRef = ReferenceClockStart(t, offset),
            !.sourceNodeRef = source,
            !.isPlaying = TRUE]
    IN  UpdateProgress(started, buf, t)

\* pauseAudio in the render whose audioBuffer prop is buf
PauseAudio(s, buf, t) ==
    LET elapsed == t - s.startTimeRef
        stopped == StopAudio([s EXCEPT !.pauseTimeRef = elapsed])
    IN  IF buf # NoBuffer
        THEN [stopped EXCEPT !.progress = CurrentProgress(elapsed, buf.duration)]
        ELSE stopped

ResetAudioKeepsOffset(s) == [StopAudio(s) EXCEPT !.progress = 0]

ResetAudio(s) == [StopAudio(s) EXCEPT !.pauseTimeRef = 0, !.progress = 0]

\* the effect on [audioBuffer, script, allowScriptEdit]; the script prop is
\* generatedScript || "Generating script...", never empty
EditModeEffect(s, buf) ==
    [s EXCEPT !.isEditing = (buf = NoBuffer)]

OnAudioBufferChangeNoReset(s) == s

\* the effect on [audioBuffer]: "Reset state when audio buffer changes"
OnAudioBufferChange(s) == ResetAudio(s)

DigitChars == <<"0", "1", "2", "3", "4", "5", "6", "7", "8", "9">>

\* Number.prototype.toString of a whole number n >= 0: its decimal digits
RECURSIVE NumberToString(_)
NumberToString(n) ==
    IF n < 10 THEN <<DigitChars[n + 1]>>
    ELSE Append(NumberToString(n \div 10), DigitChars[(n % 10) + 1])

\* String.prototype.padStart with a pad string of one character
RECURSIVE PadStart(_, _, _)
PadStart(str, len, ch) ==
    IF Len(str) >= len THEN str ELSE PadStart(<<ch>> \o str, len, ch)

FormatTimeRounds(seconds) ==
    LET mins == seconds \div (60 * Units)
        secs == ((seconds % (60 * Units)) + Units \div 2) \div Units
    IN  PadStart(NumberToString(mins), 2, "0") \o <<":">>
            \o PadStart(NumberToString(secs), 2, "0")

\* formatTime of `seconds` fixed-point units, seconds >= 0: Math.floor of a
\* quotient is \div, and seconds % 60 is the remainder in units
FormatTime(seconds) ==
    LET mins == seconds \div (60 * Units)
        secs == (seconds % (60 * Units)) \div Units
    IN  PadStart(NumberToString(mins), 2, "0") \o <<":">>
            \o PadStart(NumberToString(secs), 2, "0")

\* the elapsed-time label of a render: formatTime(pauseTimeRef.current),
\* pauseTimeRef being a whole number of seconds
DisplayedTime == FormatTime(pauseTimeRef * Units)

\* the script prop App passes down
ScriptProp(gs) == IF gs = "" THEN "Generating script..." ELSE gs

\* the AudioPlayer after App re-rendered it with audioBuffer ab2 and
\* generatedScript gs2: the effects whose dependencies changed have run
Rerendered(s, ab2, gs2) ==
    IF ab2 # audioBuffer THEN OnAudioBufferChange(EditModeEffect(s, ab2))
    ELSE IF ScriptProp(gs2) # ScriptProp(generatedScript) THEN EditModeEffect(s, ab2)
    ELSE s

\* The render that follows an App state change to audioBuffer ab2,
\* generatedScript gs2 and isProcessing ip2.  Unmounting closes the
\* AudioContext (its nodes fall silent, its pending resumes and frames act on
\* a component that is gone); the next mount creates a new one, whose clock
\* starts at 0 and which the autoplay policy may or may not suspend.
Render(ab2, gs2, ip2) ==
    IF ~(gs2 # "" \/ ip2)
    THEN /\ Apply(PlayerInitial)
         /\ playCalls' = <<>>
         /\ currentTime' = 0
         /\ ctxState' \in {"suspended", "running"}
         /\ activeTime' = 0
         /\ alternating' = TRUE
         /\ lastStop' = NoStop
         /\ playedNoSample' = FALSE
    ELSE /\ IF Mounted THEN Apply(Rerendered(Cur, ab2, gs2))
                       ELSE Apply(OnAudioBufferChange(EditModeEffect(Cur, ab2)))
         /\ UNCHANGED ctxVars
         /\ IF ab2 # audioBuffer
            THEN /\ activeTime' = 0 /\ alternating' = TRUE
                 /\ lastStop' = [op |-> "replace", wasPlaying |-> isPlaying]
                 /\ playedNoSample' = FALSE
            ELSE UNCHANGED histVars

\* ------------------------------------------------------------------ App

RemoveAt(q, i) == SubSeq(q, 1, i - 1) \o SubSeq(q, i + 1, Len(q))

\* a newly decoded AudioBuffer of duration d: a new object
NewBuffer(d) == [id |-> decoded + 1, duration |-> d]

\* String.prototype.trim on the texts of this model: the empty text and the
\* text of white space only are blank
Trim(v) == IF v = " " THEN "" ELSE v

\* the textarea's onChange
ChangeInput(v) ==
    /\ ~(isProcessing \/ isSynthesizing)
    /\ ~isUploading
    /\ v # inputText
    /\ inputText' = v
    /\ UNCHANGED <<generatedScript, audioBuffer, isProcessing, isSynthesizing,
                   selectedVoice, error, precisionMode, calls, decoded,
                   inputVars, gated>>
    /\ UNCHANGED <<playerVars, ctxVars, histVars>>
    /\ UNCHANGED fmtVars

TogglePrecisionMode ==
    /\ precisionMode' = ~precisionMode
    /\ UNCHANGED <<inputText, generatedScript, audioBuffer, isProcessing,
                   isSynthesizing, selectedVoice, error, calls, decoded,
                   inputVars, gated>>
    /\ UNCHANGED <<playerVars, ctxVars, histVars>>
    /\ UNCHANGED fmtVars

\* the Generate button: handleGenerate up to `await generateNewsScript`
HandleGenerate ==
    /\ ~(isProcessing \/ isSynthesizing)
    /\ ~isUploading
    /\ Trim(inputText) # ""
    /\ Len(calls) < MaxCalls
    /\ gated' = precisionMode
    /\ isProcessing' = TRUE
    /\ error' = NoError
    /\ audioBuffer' = NoBuffer
    /\ generatedScript' = ""
    /\ calls' = Append(calls, [fn |-> "generate", pc |-> "script",
                               precisionMode |-> precisionMode])
    /\ UNCHANGED <<inputText, isSynthesizing, selectedVoice, precisionMode,
                   decoded, inputVars>>
    /\ Render(NoBuffer, "", TRUE)
    /\ UNCHANGED fmtVars

\* generateNewsScript resolved: the script is published and, unless the
\* closure's precisionMode is on, synthesizeAudio runs up to its await
ScriptDone(i) ==
    /\ calls[i].pc = "script"
    /\ generatedScript' = "script"
    /\ IF calls[i].precisionMode
       THEN /\ isProcessing' = FALSE
            /\ calls' = RemoveAt(calls, i)
            /\ UNCHANGED <<isSynthesizing, error>>
       ELSE /\ isSynthesizing' = TRUE
            /\ error' = NoError
            /\ calls' = [calls EXCEPT ![i].pc = "speech"]
            /\ UNCHANGED isProcessing
    /\ UNCHANGED <<inputText, audioBuffer, selectedVoice, precisionMode, decoded,
                   inputVars, gated>>
    /\ Render(audioBuffer, "script", isProcessing')
    /\ UNCHANGED fmtVars

\* generateNewsScript rejected: handleGenerate's catch and finally
ScriptFail(i) ==
    /\ calls[i].pc = "script"
    /\ error' = ErrBroadcast
    /\ isProcessing' = FALSE
    /\ calls' = RemoveAt(calls, i)
    /\ UNCHANGED <<inputText, generatedScript, audioBuffer, isSynthesizing,
                   selectedVoice, precisionMode, decoded, inputVars, gated>>
    /\ Render(audioBuffer, generatedScript, FALSE)
    /\ UNCHANGED fmtVars

\* generateSpeechFromScript resolved: setAudioBuffer(buffer), then
\* `await tempCtx.close()`
SpeechDone(i, d) ==
    /\ calls[i].pc = "speech"
    /\ decoded < MaxSamples
    /\ decoded' = decoded + 1
    /\ audioBuffer' = NewBuffer(d)
    /\ calls' = [calls EXCEPT ![i].pc = "closing"]
    /\ UNCHANGED <<inputText, generatedScript, isProcessing, isSynthesizing,
                   selectedVoice, error, precisionMode, inputVars, gated>>
    /\ Render(audioBuffer', generatedScript, isProcessing)
    /\ UNCHANGED fmtVars

\* synthesizeAudio's finally, and handleGenerate's when it was the caller
SynthesisEnd(i) ==
    /\ isSynthesizing' = FALSE
    /\ isProcessing' = IF calls[i].fn = "generate" THEN FALSE ELSE isProcessing
    /\ calls' = RemoveAt(calls, i)

\* tempCtx.close() resolved
CloseDone(i) ==
    /\ calls[i].pc = "closing"
    /\ SynthesisEnd(i)
    /\ UNCHANGED <<inputText, generatedScript, audioBuffer, selectedVoice,
                   error, precisionMode, decoded, inputVars, gated>>
    /\ Render(audioBuffer, generatedScript, isProcessing')
    /\ UNCHANGED fmtVars

\* generateSpeechFromScript rejected: synthesizeAudio's catch and finally
SpeechFail(i) ==
    /\ calls[i].pc = "speech"
    /\ error' = ErrAudio
    /\ SynthesisEnd(i)
    /\ UNCHANGED <<inputText, generatedScript, audioBuffer, selectedVoice,
                   precisionMode, decoded, inputVars, gated>>
    /\ Render(audioBuffer, generatedScript, isProcessing')
    /\ UNCHANGED fmtVars

\* synthesizeAudio up to `await generateSpeechFromScript`, called by fn
SynthesizeAudio(fn) ==
    /\ isSynthesizing' = TRUE
    /\ error' = NoError
    /\ calls' = Append(calls, [fn |-> fn, pc |-> "speech",
                               precisionMode |-> FALSE])

\* ------------------------------------------------------------ NewsInput

\* the "Try Example" button
ClickTryExample ==
    /\ ~(isProcessing \/ isSynthesizing)
    /\ ~isUploading
    /\ ~showExampleInput
    /\ showExampleInput' = TRUE
    /\ UNCHANGED <<exampleTopic, isGeneratingExample, isUploading>>
    /\ UNCHANGED <<inputText, generatedScript, audioBuffer, isProcessing,
                   isSynthesizing, selectedVoice, error, precisionMode, calls,
                   decoded, gated>>
    /\ UNCHANGED <<playerVars, ctxVars, histVars>>
    /\ UNCHANGED fmtVars

\* the topic field's onChange
TypeTopic(v) ==
    /\ showExampleInput
    /\ ~isGeneratingExample
    /\ v # exampleTopic
    /\ exampleTopic' = v
    /\ UNCHANGED <<showExampleInput, isGeneratingExample, isUploading>>
    /\ UNCHANGED <<inputText, generatedScript, audioBuffer, isProcessing,
                   isSynthesizing, selectedVoice, error, precisionMode, calls,
                   decoded, gated>>
    /\ UNCHANGED <<playerVars, ctxVars, histVars>>
    /\ UNCHANGED fmtVars

\* the example's submit button or Enter in the topic field:
\* handleExampleSubmit, and in it handleGenerateExample up to
\* `await generateExampleNews`
HandleExampleSubmit ==
    /\ showExampleInput
    /\ ~isGeneratingExample
    /\ Trim(exampleTopic) # ""
    /\ Len(calls) < MaxCalls
    /\ isGeneratingExample' = TRUE
    /\ isProcessing' = TRUE
    /\ error' = NoError
    /\ calls' = Append(calls, [fn |-> "example", pc |-> "example",
                               precisionMode |-> FALSE])
    /\ UNCHANGED <<showExampleInput, exampleTopic, isUploading>>
    /\ UNCHANGED <<inputText, generatedScript, audioBuffer, isSynthesizing,
                   selectedVoice, precisionMode, decoded, gated>>
    /\ Render(audioBuffer, generatedScript, TRUE)
    /\ UNCHANGED fmtVars

\* what handleExampleSubmit does once onGenerateExample has resolved, which
\* it does whether generateExampleNews resolved or rejected
ExampleSubmitted ==
    /\ showExampleInput' = FALSE
    /\ exampleTopic' = ""
    /\ isGeneratingExample' = FALSE
    /\ UNCHANGED isUploading

\* generateExampleNews resolved: setInputText, handleGenerateExample's
\* finally, and the rest of handleExampleSubmit
ExampleDone(i) ==
    /\ calls[i].pc = "example"
    /\ inputText' = "example"
    /\ isProcessing' = FALSE
    /\ calls' = RemoveAt(calls, i)
    /\ ExampleSubmitted
    /\ UNCHANGED <<generatedScript, audioBuffer, isSynthesizing, selectedVoice,
                   error, precisionMode, decoded, gated>>
    /\ Render(audioBuffer, generatedScript, FALSE)
    /\ UNCHANGED fmtVars

\* generateExampleNews rejected: handleGenerateExample's catch and finally,
\* and the rest of handleExampleSubmit
ExampleFail(i) ==
    /\ calls[i].pc = "example"
    /\ error' = ErrExample
    /\ isProcessing' = FALSE
    /\ calls' = RemoveAt(calls, i)
    /\ ExampleSubmitted
    /\ UNCHANGED <<inputText, generatedScript, audioBuffer, isSynthesizing,
                   selectedVoice, precisionMode, decoded, gated>>
    /\ Render(audioBuffer, generatedScript, FALSE)
    /\ UNCHANGED fmtVars

\* the kinds of file the upload accepts: one that handleFileChange reads as
\* text and one it hands to a FileReader
FileKinds == {"text", "binary"}

\* the file input's onChange with a file chosen: handleFileChange up to
\* `await file.text()` for a text file; for any other file to its `return`
\* after reader.readAsDataURL, and through the finally block that the return
\* runs
HandleFileChange(kind) ==
    /\ ~(isProcessing \/ isSynthesizing)
    /\ ~isUploading
    /\ Len(calls) < MaxCalls
    /\ IF kind = "text"
       THEN /\ isUploading' = TRUE
            /\ calls' = Append(calls, [fn |-> "file", pc |-> "text",
                                       precisionMode |-> FALSE])
       ELSE /\ isUploading' = FALSE
            /\ calls' = Append(calls, [fn |-> "file", pc |-> "read",
                                       precisionMode |-> FALSE])
    /\ UNCHANGED <<showExampleInput, exampleTopic, isGeneratingExample>>
    /\ UNCHANGED <<inputText, generatedScript, audioBuffer, isProcessing,
                   isSynthesizing, selectedVoice, error, precisionMode,
                   decoded, gated>>
    /\ UNCHANGED <<playerVars, ctxVars, histVars>>
    /\ UNCHANGED fmtVars

\* file.text() resolved: onChange(text) and the finally block
TextRead(i) ==
    /\ calls[i].pc = "text"
    /\ inputText' = "text"
    /\ isUploading' = FALSE
    /\ calls' = RemoveAt(calls, i)
    /\ UNCHANGED <<showExampleInput, exampleTopic, isGeneratingExample>>
    /\ UNCHANGED <<generatedScript, audioBuffer, isProcessing, isSynthesizing,
                   selectedVoice, error, precisionMode, decoded, gated>>
    /\ UNCHANGED <<playerVars, ctxVars, histVars>>
    /\ UNCHANGED fmtVars

\* file.text() rejected: the catch and the finally block
TextReadFail(i) ==
    /\ calls[i].pc = "text"
    /\ isUploading' = FALSE
    /\ calls' = RemoveAt(calls, i)
    /\ UNCHANGED <<showExampleInput, exampleTopic, isGeneratingExample>>
    /\ UNCHANGED <<inputText, generatedScript, audioBuffer, isProcessing,
                   isSynthesizing, selectedVoice, error, precisionMode,
                   decoded, gated>>
    /\ UNCHANGED <<playerVars, ctxVars, histVars>>
    /\ UNCHANGED fmtVars

\* the FileReader's load event: reader.onload up to `await onParseFile`, and
\* in it handleParseFile up to `await extractTextFromFile`
ReaderLoaded(i) ==
    /\ calls[i].pc = "read"
    /\ isProcessing' = TRUE
    /\ error' = NoError
    /\ calls' = [calls EXCEPT ![i].pc = "extract"]
    /\ UNCHANGED inputVars
    /\ UNCHANGED <<inputText, generatedScript, audioBuffer, isSynthesizing,
                   selectedVoice, precisionMode, decoded, gated>>
    /\ Render(audioBuffer, generatedScript, TRUE)
    /\ UNCHANGED fmtVars

\* extractTextFromFile resolved: setInputText, handleParseFile's finally, and
\* the rest of reader.onload
ExtractDone(i) ==
    /\ calls[i].pc = "extract"
    /\ inputText' = "extracted"
    /\ isProcessing' = FALSE
    /\ isUploading' = FALSE
    /\ calls' = RemoveAt(calls, i)
    /\ UNCHANGED <<showExampleInput, exampleTopic, isGeneratingExample>>
    /\ UNCHANGED <<generatedScript, audioBuffer, isSynthesizing, selectedVoice,
                   error, precisionMode, decoded, gated>>
    /\ Render(audioBuffer, generatedScript, FALSE)
    /\ UNCHANGED fmtVars

\* extractTextFromFile rejected: handleParseFile's catch and finally, and the
\* rest of reader.onload
ExtractFail(i) ==
    /\ calls[i].pc = "extract"
    /\ error' = ErrExtract
    /\ isProcessing' = FALSE
    /\ isUploading' = FALSE
    /\ calls' = RemoveAt(calls, i)
    /\ UNCHANGED <<showExampleInput, exampleTopic, isGeneratingExample>>
    /\ UNCHANGED <<inputText, generatedScript, audioBuffer, isSynthesizing,
                   selectedVoice, precisionMode, decoded, gated>>
    /\ Render(audioBuffer, generatedScript, FALSE)
    /\ UNCHANGED fmtVars

\* ---------------------------------------------- the player's event handlers

\* the history after the player went from s to s2 by playAudio or by a frame:
\* playback began or went on, or it ran to its end, or nothing happened
HistoryAfter(s, s2) ==
    IF s2.isPlaying
    THEN /\ alternating' = (alternating /\ s.sourceNodeRef \in {NoNode, s2.sourceNodeRef})
         /\ activeTime' = IF alternating' THEN activeTime ELSE 0
         /\ lastStop' = NoStop
         /\ UNCHANGED playedNoSample
    ELSE IF s.isPlaying \/ s.sourceNodeRef # s2.sourceNodeRef
                        \/ s.pauseTimeRef # s2.pauseTimeRef
    THEN /\ activeTime' = 0 /\ alternating' = TRUE
         /\ lastStop' = [op |-> "end", wasPlaying |-> s.isPlaying]
         /\ UNCHANGED playedNoSample
    ELSE UNCHANGED histVars

ClickPlayNoAwait ==
    /\ Mounted /\ audioBuffer # NoBuffer /\ ~isEditing
    /\ ~isPlaying
    /\ Apply(StartPlayback(Cur, audioBuffer, currentTime))
    /\ HistoryAfter(Cur, StartPlayback(Cur, audioBuffer, currentTime))
    /\ UNCHANGED <<ctxVars, appVars>>
    /\ UNCHANGED fmtVars

\* the play/pause button while it shows Play: playAudio up to its await, or
\* to its end when the context is running
ClickPlay ==
    /\ Mounted /\ audioBuffer # NoBuffer /\ ~isEditing
    /\ ~isPlaying
    /\ IF ctxState = "suspended"
       THEN /\ Len(playCalls) < MaxPending
            /\ playCalls' = Append(playCalls, audioBuffer)
            /\ UNCHANGED <<playerVars, ctxState, currentTime, histVars>>
       ELSE /\ Apply(StartPlayback(Cur, audioBuffer, currentTime))
            /\ HistoryAfter(Cur, StartPlayback(Cur, audioBuffer, currentTime))
            /\ UNCHANGED ctxVars
    /\ UNCHANGED appVars
    /\ UNCHANGED fmtVars

PlayAudioNoGuard(s, buf, t) ==
    IF ctxState = "suspended" THEN s ELSE StartPlayback(s, buf, t)

\* playAudio from its first line to its await or, when the context is
\* running, to its end, in the render whose audioBuffer prop is buf
PlayAudio(s, buf, t) ==
    IF buf = NoBuffer THEN s
    ELSE IF ctxState = "suspended" THEN s
    ELSE StartPlayback(s, buf, t)

\* the playAudio invocations waiting for resume() after playAudio was called
\* in the render whose audioBuffer prop is buf
AwaitingResume(q, buf) ==
    IF buf # NoBuffer /\ ctxState = "suspended" THEN Append(q, buf) ELSE q

\* the suspended playAudio invocations of q run to their end one after the
\* other at time t, each with the audioBuffer of its closure
RECURSIVE ResumeAll(_, _, _)
ResumeAll(s, q, t) ==
    IF q = <<>> THEN s
    ELSE ResumeAll(StartPlayback(s, Head(q), t), Tail(q), t)

\* some invocation of q, run as in ResumeAll, lets an error escape
RECURSIVE ResumeAllRaises(_, _, _)
ResumeAllRaises(s, q, t) ==
    /\ q # <<>>
    /\ \/ PlayAudioRaises(s, t)
       \/ ResumeAllRaises(StartPlayback(s, Head(q), t), Tail(q), t)

\* the context resumed: the promises of all resume() calls that were waiting
\* resolve in one task, and the playAudio invocations continue in the order
\* of their calls before anything else runs
ResumeDone ==
    /\ playCalls # <<>>
    /\ ctxState' = "running"
    /\ playCalls' = <<>>
    /\ Apply(ResumeAll(Cur, playCalls, currentTime))
    /\ HistoryAfter(Cur, ResumeAll(Cur, playCalls, currentTime))
    /\ UNCHANGED <<currentTime, appVars>>
    /\ UNCHANGED fmtVars

\* resume() rejected: playAudio's promise rejects, and nothing handles it
ResumeFail ==
    /\ playCalls # <<>>
    /\ ctxState = "suspended"
    /\ playCalls' = Tail(playCalls)
    /\ UNCHANGED <<ctxState, currentTime, playerVars, appVars, histVars>>
    /\ UNCHANGED fmtVars

\* the play/pause button while it shows Pause
ClickPause ==
    /\ Mounted /\ audioBuffer # NoBuffer /\ ~isEditing
    /\ isPlaying
    /\ Apply(PauseAudio(Cur, audioBuffer, currentTime))
    /\ lastStop' = [op |-> "pause", wasPlaying |-> isPlaying]
    /\ UNCHANGED <<ctxVars, appVars, activeTime, alternating, playedNoSample>>
    /\ UNCHANGED fmtVars

\* the reset button
ClickReset ==
    /\ Mounted /\ audioBuffer # NoBuffer /\ ~isEditing
    /\ Apply(ResetAudio(Cur))
    /\ activeTime' = 0
    /\ alternating' = TRUE
    /\ lastStop' = [op |-> "reset", wasPlaying |-> isPlaying]
    /\ UNCHANGED <<ctxVars, appVars, playedNoSample>>
    /\ UNCHANGED fmtVars

\* the Edit button
ClickEdit ==
    /\ Mounted /\ audioBuffer # NoBuffer /\ ~isEditing
    /\ Apply(StopAudio([Cur EXCEPT !.isEditing = TRUE]))
    /\ alternating' = (alternating /\ ~isPlaying)
    /\ activeTime' = IF alternating' THEN activeTime ELSE 0
    /\ lastStop' = [op |-> "edit", wasPlaying |-> isPlaying]
    /\ UNCHANGED <<ctxVars, appVars, playedNoSample>>
    /\ UNCHANGED fmtVars

\* the "Confirm & Generate Audio" button: handleConfirmScript
ClickConfirm ==
    /\ Mounted /\ isEditing /\ ~isSynthesizing
    /\ Len(calls) < MaxCalls
    /\ Apply([Cur EXCEPT !.isEditing = FALSE])
    /\ IF generatedScript # ""
       THEN SynthesizeAudio("confirm") /\ gated' = FALSE
       ELSE UNCHANGED <<isSynthesizing, error, calls, gated>>
    /\ UNCHANGED <<inputText, generatedScript, audioBuffer, isProcessing,
                   selectedVoice, precisionMode, decoded, inputVars>>
    /\ UNCHANGED <<ctxVars, histVars>>
    /\ UNCHANGED fmtVars

\* a voice button: handleVoiceChange
ClickVoice(v) ==
    /\ Mounted /\ ~isSynthesizing
    /\ Len(calls) < MaxCalls
    /\ selectedVoice' = v
    /\ IF generatedScript # "" /\ audioBuffer # NoBuffer /\ ~isSynthesizing
       THEN SynthesizeAudio("voice")
       ELSE UNCHANGED <<isSynthesizing, error, calls>>
    /\ UNCHANGED <<inputText, generatedScript, audioBuffer, isProcessing,
                   precisionMode, decoded, inputVars, gated>>
    /\ UNCHANGED <<playerVars, ctxVars, histVars>>
    /\ UNCHANGED fmtVars

\* the browser takes the oldest pending callback off the list to run it
TakeFrame(s) ==
    [s EXCEPT !.rafQueue = Tail(@),
              !.animationFrameRef = IF Len(s.rafQueue) = 1 /\ @ = "pending"
                                      THEN "done" ELSE @]

Min(a, b) == IF a <= b THEN a ELSE b

\* the first n callbacks of s.rafQueue run in order at time t; what they
\* request waits for the next frame, what they cancel does not run
RECURSIVE RunFrame(_, _, _)
RunFrame(s, n, t) ==
    IF n = 0 THEN s
    ELSE LET after == UpdateProgress(TakeFrame(s), Head(s.rafQueue), t)
         IN  RunFrame(after, Min(n - 1, Len(after.rafQueue)), t)

\* an animation frame: the browser runs the callbacks pending at its start
Frame ==
    /\ Mounted
    /\ rafQueue # <<>>
    /\ Apply(RunFrame(Cur, Len(rafQueue), currentTime))
    /\ HistoryAfter(Cur, RunFrame(Cur, Len(rafQueue), currentTime))
    /\ UNCHANGED <<ctxVars, appVars>>
    /\ UNCHANGED fmtVars

\* the running context's clock advances
Advance ==
    /\ Mounted
    /\ ctxState = "running"
    /\ currentTime < MaxTime
    /\ currentTime' = currentTime + 1
    /\ activeTime' = IF isPlaying /\ alternating THEN activeTime + 1 ELSE activeTime
    /\ UNCHANGED <<alternating, lastStop, playedNoSample, ctxState, playCalls,
                   playerVars, appVars>>
    /\ UNCHANGED fmtVars

\* ------------------------------------------------------- specifications

Init ==
    /\ inputText = ""
    /\ generatedScript = ""
    /\ audioBuffer = NoBuffer
    /\ isProcessing = FALSE
    /\ isSynthesizing = FALSE
    /\ selectedVoice = "Kore"
    /\ error = NoError
    /\ precisionMode = FALSE
    /\ calls = <<>>
    /\ decoded = 0
    /\ showExampleInput = FALSE
    /\ exampleTopic = ""
    /\ isGeneratingExample = FALSE
    /\ isUploading = FALSE
    /\ formatArg = 0
    /\ formatted = <<>>
    /\ gated = FALSE
    /\ isPlaying = PlayerInitial.isPlaying
    /\ progress = PlayerInitial.progress
    /\ isEditing = PlayerInitial.isEditing
    /\ sourceNodeRef = PlayerInitial.sourceNodeRef
    /\ startTimeRef = PlayerInitial.startTimeRef
    /\ pauseTimeRef = PlayerInitial.pauseTimeRef
    /\ animationFrameRef = PlayerInitial.animationFrameRef
    /\ nodes = PlayerInitial.nodes
    /\ rafQueue = PlayerInitial.rafQueue
    /\ ctxState \in {"suspended", "running"}
    /\ currentTime = 0
    /\ playCalls = <<>>
    /\ activeTime = 0
    /\ alternating = TRUE
    /\ lastStop = NoStop
    /\ playedNoSample = FALSE

\* App as far as it decides the AudioPlayer's props: the news text is typed
\* once, precision mode stays off and the voice buttons re-select the voice
AppNext ==
    \/ ChangeInput("news")
    \/ HandleGenerate
    \/ \E i \in DOMAIN calls : ScriptDone(i)
    \/ \E i \in DOMAIN calls : ScriptFail(i)
    \/ \E i \in DOMAIN calls : \E d \in Durations : SpeechDone(i, d)
    \/ \E i \in DOMAIN calls : SpeechFail(i)
    \/ \E i \in DOMAIN calls : CloseDone(i)
    \/ ClickConfirm
    \/ ClickVoice(selectedVoice)

PlayerNext ==
    \/ ClickPlay
    \/ ResumeDone
    \/ ResumeFail
    \/ ClickPause
    \/ ClickReset
    \/ ClickEdit
    \/ Frame
    \/ Advance

Next == AppNext \/ PlayerNext

Spec == Init /\ [][Next]_vars

\* the texts the user types: none, white space only, and news
Texts == {"", " ", "news"}

\* NewsInput's controls and what they start
InputNext ==
    \/ \E v \in Texts : ChangeInput(v)
    \/ TogglePrecisionMode
    \/ ClickTryExample
    \/ TypeTopic("AI")
    \/ HandleExampleSubmit
    \/ \E i \in DOMAIN calls : ExampleDone(i)
    \/ \E i \in DOMAIN calls : ExampleFail(i)
    \/ \E kind \in FileKinds : HandleFileChange(kind)
    \/ \E i \in DOMAIN calls : TextRead(i)
    \/ \E i \in DOMAIN calls : TextReadFail(i)
    \/ \E i \in DOMAIN calls : ReaderLoaded(i)
    \/ \E i \in DOMAIN calls : ExtractDone(i)
    \/ \E i \in DOMAIN calls : ExtractFail(i)

\* the sample is never played here, so one duration stands for all
ShortestDuration == CHOOSE d \in Durations : \A e \in Durations : d <= e

\* the generation and synthesis requests and the controls that start them
FlowNext ==
    \/ HandleGenerate
    \/ \E i \in DOMAIN calls : ScriptDone(i)
    \/ \E i \in DOMAIN calls : ScriptFail(i)
    \/ \E i \in DOMAIN calls : SpeechDone(i, ShortestDuration)
    \/ \E i \in DOMAIN calls : SpeechFail(i)
    \/ \E i \in DOMAIN calls : CloseDone(i)
    \/ ClickConfirm
    \/ \E v \in Voices : ClickVoice(v)
    \/ ClickEdit

\* App and NewsInput with every control of theirs, and of the AudioPlayer the
\* controls that reach App; the sample is never played
AppSpec == Init /\ [][InputNext \/ FlowNext]_vars

\* pause() as an operation of the controller, invoked while the session is
\* not active: pauseAudio itself, without the play/pause button in front of it
PauseInactive ==
    /\ Mounted
    /\ ~isPlaying
    /\ Apply(PauseAudio(Cur, audioBuffer, currentTime))
    /\ lastStop' = [op |-> "pause", wasPlaying |-> isPlaying]
    /\ UNCHANGED <<ctxVars, appVars, activeTime, alternating, playedNoSample>>
    /\ UNCHANGED fmtVars

\* the program, and the controller's pause() open to any caller
ApiSpec == Init /\ [][Next \/ PauseInactive]_vars

\* play() as an operation of the controller, invoked while no sample is
\* loaded: playAudio itself, without the disabled play/pause button in front
\* of it
PlayNoSample ==
    /\ Mounted
    /\ audioBuffer = NoBuffer
    /\ Apply(PlayAudio(Cur, audioBuffer, currentTime))
    /\ playCalls' = AwaitingResume(playCalls, audioBuffer)
    /\ playedNoSample' = TRUE
    /\ UNCHANGED <<ctxState, currentTime, appVars, activeTime, alternating,
                   lastStop>>
    /\ UNCHANGED fmtVars

\* the program, and the controller's play() open to a caller without a sample
NoSampleSpec == Init /\ [][Next \/ PlayNoSample]_vars

\* formatTime on its own: the program as constructed, an argument of any
\* number of units up to the bound, and the one call
FormatInit ==
    /\ formatArg \in 0..MaxOffset
    /\ formatted = <<>>
    /\ inputText = "" /\ generatedScript = "" /\ audioBuffer = NoBuffer
    /\ isProcessing = FALSE /\ isSynthesizing = FALSE
    /\ selectedVoice = "Kore" /\ error = NoError /\ precisionMode = FALSE
    /\ calls = <<>> /\ decoded = 0
    /\ showExampleInput = FALSE /\ exampleTopic = ""
    /\ isGeneratingExample = FALSE /\ isUploading = FALSE /\ gated = FALSE
    /\ isPlaying = PlayerInitial.isPlaying
    /\ progress = PlayerInitial.progress
    /\ isEditing = PlayerInitial.isEditing
    /\ sourceNodeRef = PlayerInitial.sourceNodeRef
    /\ startTimeRef = PlayerInitial.startTimeRef
    /\ pauseTimeRef = PlayerInitial.pauseTimeRef
    /\ animationFrameRef = PlayerInitial.animationFrameRef
    /\ nodes = PlayerInitial.nodes
    /\ rafQueue = PlayerInitial.rafQueue
    /\ ctxState = "running" /\ currentTime = 0 /\ playCalls = <<>>
    /\ activeTime = 0 /\ alternating = TRUE /\ lastStop = NoStop
    /\ playedNoSample = FALSE

CallFormatTime ==
    /\ formatted = <<>>
    /\ formatted' = FormatTime(formatArg)
    /\ UNCHANGED <<formatArg, appVars, playerVars, ctxVars, histVars>>

FormatSpec == FormatInit /\ [][CallFormatTime]_vars

\* Playback left to itself.  A sample of any duration the clock's bound can
\* hold is loaded and nothing is in flight; the user only presses Play, one
\* press at a time and early enough for the bounded clock to cover the run.
\* The browser keeps running animation frames and the running context's clock
\* keeps advancing.
LiveInit ==
    /\ inputText = "news"
    /\ generatedScript = "script"
    /\ audioBuffer \in {[id |-> 1, duration |-> d] : d \in 1..MaxTime}
    /\ isProcessing = FALSE
    /\ isSynthesizing = FALSE
    /\ selectedVoice = "Kore"
    /\ error = NoError
    /\ precisionMode = FALSE
    /\ calls = <<>>
    /\ decoded = 1
    /\ showExampleInput = FALSE
    /\ exampleTopic = ""
    /\ isGeneratingExample = FALSE
    /\ isUploading = FALSE
    /\ formatArg = 0
    /\ formatted = <<>>
    /\ gated = FALSE
    /\ isPlaying = FALSE
    /\ progress = 0
    /\ isEditing = FALSE
    /\ sourceNodeRef = NoNode
    /\ startTimeRef = 0
    /\ pauseTimeRef = 0
    /\ animationFrameRef = "none"
    /\ nodes = {}
    /\ rafQueue = <<>>
    /\ ctxState \in {"suspended", "running"}
    /\ currentTime = 0
    /\ playCalls = <<>>
    /\ activeTime = 0
    /\ alternating = TRUE
    /\ lastStop = NoStop
    /\ playedNoSample = FALSE

LivePlay ==
    /\ playCalls = <<>>
    /\ currentTime + audioBuffer.duration <= MaxTime
    /\ ClickPlay

LiveNext ==
    \/ LivePlay
    \/ ResumeDone
    \/ ResumeFail
    \/ Frame
    \/ Advance

LiveSpec ==
    LiveInit /\ [][LiveNext]_vars /\ WF_vars(Frame) /\ WF_vars(Advance)

\* ------------------------------------------------------------- the claims

\* the duration of the sample the started engine renders
PlayingDuration ==
    IF sourceNodeRef = NoNode THEN 0
    ELSE (CHOOSE n \in nodes : n.id = sourceNodeRef).buffer.duration

\* C1: while play and pause alternate and playback has not reached the
\* sample's duration, pause stores as offset exactly the clock time spent
\* playing since the last reset, replacement or completion (paused time is
\* not counted, played time is neither lost nor counted twice) and shows
\* offset / duration as progress; play starts the engine at that offset and
\* sets the reference clock start to now - offset.
C1_PauseStoresActiveTime ==
    [][/\ (ClickPause /\ alternating
              /\ currentTime - startTimeRef < PlayingDuration)
          => /\ pauseTimeRef' = activeTime
             /\ progress' = CurrentProgress(activeTime, audioBuffer.duration)
       /\ (~isPlaying /\ isPlaying' /\ alternating')
          => /\ startTimeRef' = currentTime - activeTime
             /\ \E n \in nodes' : n.id = sourceNodeRef' /\ n.offset = activeTime
      ]_vars

\* C1 witness: paused after two units of playing and one of not playing
C1_Witness ==
    /\ lastStop = [op |-> "pause", wasPlaying |-> TRUE]
    /\ ~isPlaying /\ alternating
    /\ activeTime = 2 /\ pauseTimeRef = 2 /\ currentTime = 3
    /\ startTimeRef = 1

\* playback ran to its end and was torn down
Completed ==
    /\ ~isPlaying
    /\ progress = Percent
    /\ pauseTimeRef = 0
    /\ sourceNodeRef = NoNode /\ nodes = {}
    /\ rafQueue = <<>> /\ animationFrameRef # "pending"

\* C2: playback left to itself completes: some frame finds elapsed / duration
\* >= 1, sets progress to exactly 100, stops and releases the engine, clears
\* isPlaying, resets pauseTimeRef to 0 and requests no further frame; the
\* play after that starts the engine at offset 0.
C2_NaturalCompletion ==
    /\ isPlaying ~> Completed
    /\ [][(Completed /\ isPlaying')
            => /\ startTimeRef' = currentTime
               /\ \E n \in nodes' : n.id = sourceNodeRef' /\ n.offset = 0]_vars

\* C2 witness: a sample of duration 3 played to its end, from time 1 to 4
C2_Witness ==
    /\ Completed /\ lastStop = [op |-> "end", wasPlaying |-> TRUE]
    /\ audioBuffer.duration = 3 /\ startTimeRef = 1 /\ currentTime = 4

\* C3: the reset button, in whatever state it is pressed, leaves isPlaying
\* false, no engine, pauseTimeRef 0 and progress 0, and the play that follows
\* starts the engine at offset 0.
C3_ResetToStart ==
    [][/\ ClickReset
          => /\ ~isPlaying' /\ sourceNodeRef' = NoNode /\ nodes' = {}
             /\ pauseTimeRef' = 0 /\ progress' = 0
       /\ (~isPlaying /\ pauseTimeRef = 0 /\ progress = 0 /\ isPlaying')
          => /\ startTimeRef' = currentTime
             /\ \E n \in nodes' : n.id = sourceNodeRef' /\ n.offset = 0
      ]_vars

\* C3 witness: reset was pressed while the sample, started at time 0, had
\* been playing for two units; it is back at offset 0 and progress 0
C3_Witness ==
    /\ lastStop = [op |-> "reset", wasPlaying |-> TRUE]
    /\ ~isPlaying /\ sourceNodeRef = NoNode /\ nodes = {}
    /\ pauseTimeRef = 0 /\ progress = 0
    /\ startTimeRef = 0 /\ currentTime = 2

\* C4: whenever the audioBuffer prop changes, to another sample or to none,
\* the engine of the previous one is stopped and the session is back in its
\* initial state: not playing, pauseTimeRef 0, progress 0.
C4_ReplacementResets ==
    [][audioBuffer' # audioBuffer
          => /\ ~isPlaying' /\ sourceNodeRef' = NoNode /\ nodes' = {}
             /\ pauseTimeRef' = 0 /\ progress' = 0
      ]_vars

\* C4 witness: the second sample arrived while the first one, started one
\* time unit before, was playing
C4_Witness ==
    /\ lastStop = [op |-> "replace", wasPlaying |-> TRUE]
    /\ audioBuffer.id = 2
    /\ ~isPlaying /\ nodes = {} /\ pauseTimeRef = 0 /\ progress = 0
    /\ currentTime - startTimeRef = 1

\* C5: at most one AudioBufferSourceNode is started and not stopped.
C5_OneEngine == Cardinality(nodes) <= 1

\* C5 witness: a second playAudio came out of its await while the first one's
\* engine was playing: two progress loops, and one engine
C5_Witness ==
    /\ isPlaying /\ Len(rafQueue) = 2
    /\ sourceNodeRef = 2 /\ Cardinality(nodes) = 1

\* C6: when several playAudio invocations come out of their await, the first
\* one starts playback and the later ones, finding the session playing,
\* change nothing: the engine, startTimeRef, pauseTimeRef, progress and
\* isPlaying are as the first one left them.
C6_PlayWhileActiveNoOp ==
    [][ResumeDone
          => LET first == StartPlayback(Cur, Head(playCalls), currentTime)
             IN  /\ sourceNodeRef' = first.sourceNodeRef
                 /\ nodes' = first.nodes
                 /\ startTimeRef' = first.startTimeRef
                 /\ pauseTimeRef' = first.pauseTimeRef
                 /\ progress' = first.progress
                 /\ isPlaying' = first.isPlaying
      ]_vars

\* C7: pause() while the session is not active changes nothing: pauseTimeRef,
\* progress, isPlaying and the engine reference stay as they are.
C7_PauseWhileInactiveNoOp ==
    [][PauseInactive
          => UNCHANGED <<pauseTimeRef, progress, isPlaying, sourceNodeRef>>
      ]_vars

\* C8: the published progress is within 0..100.
C8_ProgressInRange == progress \in 0..Percent

\* C9: every started engine renders the current audioBuffer, and every
\* pending progress callback measures against it.
C9_NoStaleSample ==
    /\ \A n \in nodes : n.buffer = audioBuffer
    /\ \A i \in DOMAIN rafQueue : sourceNodeRef # NoNode => rafQueue[i] = audioBuffer

\* C10: when resume() fails, the failure reaches App's error banner.
C10_ResumeFailureSurfaced ==
    [][ResumeFail => error' # NoError]_vars

\* C11: playAudio called while no sample is loaded changes nothing: no
\* engine, no frame requested, isPlaying, pauseTimeRef and progress as they
\* were, no playAudio left waiting for resume(), and no error set.
C11_PlayNoSampleNoOp ==
    [][PlayNoSample => UNCHANGED <<playerVars, ctxVars, appVars>>]_vars

\* C11 witness: playAudio was called with no sample while the context was
\* running and generation was under way; no engine, nothing pending
C11_Witness ==
    /\ playedNoSample /\ audioBuffer = NoBuffer /\ isProcessing
    /\ ctxState = "running" /\ currentTime = 1
    /\ ~isPlaying /\ nodes = {} /\ rafQueue = <<>> /\ playCalls = <<>>
    /\ error = NoError

\* C12: at each frame that leaves the session playing, the elapsed-time label
\* shows the current offset, currentTime - startTimeRef.
C12_DisplayedOffsetIsElapsed ==
    [][(Frame /\ isPlaying')
          => DisplayedTime' = FormatTime((currentTime' - startTimeRef') * Units)]_vars

\* C13: from a pause until playback begins again, reset is pressed or the
\* sample is replaced, pauseTimeRef and progress keep the values the pause
\* gave them, whatever the clock does and whichever frame callbacks run, and
\* no callback requests another frame.
C13_FrozenWhilePaused ==
    [][(lastStop.op = "pause" /\ lastStop' = lastStop)
          => /\ UNCHANGED <<pauseTimeRef, progress, isPlaying, sourceNodeRef>>
             /\ Len(rafQueue') <= Len(rafQueue)]_vars

\* C13 witness: paused at offset 1, a frame callback requested before the
\* pause is still to run, and the clock has moved on to 2
C13_Witness ==
    /\ lastStop = [op |-> "pause", wasPlaying |-> TRUE]
    /\ Len(rafQueue) = 1
    /\ startTimeRef = 0 /\ pauseTimeRef = 1 /\ currentTime = 2
    /\ progress = CurrentProgress(1, audioBuffer.duration)

\* C14: no teardown lets an error escape or depends on the engine's state:
\* stopAudio (pause, reset, edit, replacement, completion) raises nothing
\* whether the engine is playing, has finished, was stopped or never started;
\* reset twice is reset once; and the stop() at the start of playAudio,
\* from the play button or after resume(), never meets an engine that has
\* finished or was stopped.
C14_TeardownIdempotent ==
    /\ ~StopAudioRaises(Cur, currentTime)
    /\ ~StopAudioRaises(StopAudio(Cur), currentTime)
    /\ ResetAudio(ResetAudio(Cur)) = ResetAudio(Cur)
    /\ StopAudio(StopAudio(Cur)) = StopAudio(Cur)
    /\ (Mounted /\ audioBuffer # NoBuffer /\ ~isEditing /\ ~isPlaying)
          => ~PlayAudioRaises(Cur, currentTime)
    /\ ~ResumeAllRaises(Cur, playCalls, currentTime)

\* C14 witness: pause tore down an engine that had played its two time
\* units of sample to the end one unit before
C14_Witness ==
    /\ lastStop = [op |-> "pause", wasPlaying |-> TRUE]
    /\ audioBuffer.duration = 2 /\ pauseTimeRef = 3
    /\ ~isPlaying /\ sourceNodeRef = NoNode /\ nodes = {}

\* C15: at most one frame callback is pending at any time, and when one is,
\* animationFrameRef holds its handle.
C15_OneTickLoop ==
    /\ Len(rafQueue) <= 1
    /\ rafQueue # <<>> => animationFrameRef = "pending"

\* C16: while the AudioContext is suspended no engine is started, no
\* reference clock start is recorded and isPlaying is false: a playAudio
\* called then does all of that only once resume() has completed.
C16_ResumeBeforeStart ==
    ctxState = "suspended"
        => /\ nodes = {} /\ sourceNodeRef = NoNode
           /\ ~isPlaying
           /\ startTimeRef = PlayerInitial.startTimeRef
           /\ rafQueue = <<>>

\* C16 witness: Play was pressed while the context was suspended; playAudio
\* waits for resume() and nothing has started
C16_Witness ==
    /\ ctxState = "suspended"
    /\ audioBuffer # NoBuffer /\ playCalls = <<audioBuffer>>
    /\ nodes = {} /\ ~isPlaying

\* C17: after a handleGenerate that ran with precision mode on, and until
\* handleConfirmScript requests the synthesis, no speech-synthesis request is
\* in flight and audioBuffer is null
C17_PrecisionGate ==
    gated =>
        /\ audioBuffer = NoBuffer
        /\ \A i \in DOMAIN calls : calls[i].pc \notin {"speech", "closing"}

\* a generateSpeechFromScript request has been issued and not yet answered
SynthesisInFlight == \E i \in DOMAIN calls : calls[i].pc = "speech"

\* C18: a voice button always sets selectedVoice to its voice, and it issues
\* a speech-synthesis request only if a generated script and an audio buffer
\* both exist and no synthesis is in progress
C18_VoiceChangeGate ==
    [][\A v \in Voices :
          ClickVoice(v) =>
              /\ selectedVoice' = v
              /\ Len(calls') > Len(calls) =>
                     /\ generatedScript # ""
                     /\ audioBuffer # NoBuffer
                     /\ ~SynthesisInFlight]_vars

\* C19: while a file handed to the FileReader is being read or its
\* extraction request is in flight, isUploading is true
C19_UploadingUntilParsed ==
    \A i \in DOMAIN calls :
        calls[i].fn = "file" /\ calls[i].pc \in {"read", "extract"}
            => isUploading

\* C20: handleGenerate with non-blank input first clears error, audioBuffer
\* and generatedScript; when its script generation fails, the error is set,
\* no synthesis request is issued, audioBuffer is null and isProcessing is
\* false afterwards; when its synthesis fails, the error is set, the script
\* is still there and isProcessing and isSynthesizing are false afterwards
C20_GenerateFailureHandling ==
    [][/\ HandleGenerate =>
              error' = NoError /\ audioBuffer' = NoBuffer /\ generatedScript' = ""
       /\ \A i \in DOMAIN calls :
              ScriptFail(i) =>
                  /\ error' = ErrBroadcast
                  /\ calls' = RemoveAt(calls, i)
                  /\ audioBuffer' = NoBuffer
                  /\ ~isProcessing'
       /\ \A i \in DOMAIN calls :
              calls[i].fn = "generate" /\ SpeechFail(i) =>
                  /\ error' = ErrAudio
                  /\ generatedScript' # ""
                  /\ ~isProcessing' /\ ~isSynthesizing']_vars

\* C21: isPlaying is true exactly when sourceNodeRef holds an engine
C21_ActiveIffEngine == isPlaying <=> sourceNodeRef # NoNode

\* playback resumed after a pause: play() has set the flag and the engine
C21_Witness ==
    /\ isPlaying
    /\ sourceNodeRef # NoNode
    /\ pauseTimeRef > 0
    /\ lastStop = NoStop

\* C22: whenever the player is mounted with a sample and not playing, the
\* progress shown is the stored offset's share of the duration, or playback
\* ran to its end (progress 100 and offset 0)
C22_OffsetMatchesProgress ==
    Mounted /\ audioBuffer # NoBuffer /\ ~isPlaying =>
        \/ progress = CurrentProgress(pauseTimeRef, audioBuffer.duration)
        \/ progress = Percent /\ pauseTimeRef = 0

\* C23: isProcessing is true in every state in which a script-generation,
\* example-generation or file-extraction request is in flight
C23_BusyWhileInFlight ==
    (\E i \in DOMAIN calls : calls[i].pc \in {"script", "example", "extract"})
        => isProcessing

\* C24: at most one speech-synthesis request is in flight, so that no answer
\* to an earlier request can replace the buffer of a later one
C24_OneSynthesisInFlight ==
    Cardinality({i \in DOMAIN calls : calls[i].pc = "speech"}) <= 1

\* the field of a label before its colon and the field after it
MinutesField(label) ==
    SubSeq(label, 1, (CHOOSE k \in DOMAIN label : label[k] = ":") - 1)
SecondsField(label) ==
    SubSeq(label, (CHOOSE k \in DOMAIN label : label[k] = ":") + 1, Len(label))

\* the number a string of decimal digits denotes
RECURSIVE NumberOf(_)
NumberOf(str) ==
    IF str = <<>> THEN 0
    ELSE NumberOf(SubSeq(str, 1, Len(str) - 1)) * 10
            + (CHOOSE d \in 0..9 : DigitChars[d + 1] = str[Len(str)])

\* C25: the label formatTime returns shows the whole minutes and the whole
\* seconds that have fully elapsed, never rounded up, the seconds below 60 and
\* in two digits, the minutes in two digits or as many as they need
C25_FormatTimeTruncates ==
    formatted # <<>> =>
        LET m == NumberOf(MinutesField(formatted))
            sec == NumberOf(SecondsField(formatted))
        IN  /\ sec < 60
            /\ (60 * m + sec) * Units <= formatArg
            /\ formatArg < (60 * m + sec + 1) * Units
            /\ Len(SecondsField(formatted)) = 2
            /\ Len(MinutesField(formatted)) = IF m < 100 THEN 2 ELSE 3

\* 59.9 s was formatted, one unit below the full minute
C25_Witness ==
    /\ formatArg = 60 * Units - 1
    /\ formatted = <<"0", "0", ":", "5", "9">>

====
